---------------------------- MODULE Spec2Model ----------------------------
(***************************************************************************)
(* A model of pppd/ppp-md4.c: the native MD4 engine (MD4Init, MDblock,     *)
(* MD4Update, MD4Final), the PPP_MD adapter built on it (md4_init,         *)
(* md4_update, md4_final, md4_clean) and, beside it, the OpenSSL-backed    *)
(* adapter of the same file.                                               *)
(*                                                                         *)
(* An unsigned 32-bit int is a pair <<hi, lo>> of 16-bit halves, so that   *)
(* every C operation keeps its width (arithmetic is modulo 2^32).  A byte  *)
(* is a number in 0..255.  A C array a[0..n-1] is the sequence             *)
(* <<a[0], ..., a[n-1]>>, so a[i] is written a[i+1].                       *)
(***************************************************************************)
EXTENDS Integers, Sequences, FiniteSets, TLC

VARIABLES priv, out, ret, op, calls, blocks, fed, total, evp, twin

vars == <<priv, out, ret, op, calls, blocks, fed, total, evp, twin>>

-----------------------------------------------------------------------------
(* unsigned char and unsigned int arithmetic                               *)

Pow2(n) == 2 ^ n

\* AND of two 4-bit values, bit by bit
RECURSIVE AndBits(_, _, _)
AndBits(a, b, n) ==
    IF n = 0 THEN 0
    ELSE (2 * AndBits(a \div 2, b \div 2, n - 1)) + ((a % 2) * (b % 2))

AndNibble == [a \in 0..15 |-> [b \in 0..15 |-> AndBits(a, b, 4)]]

\* AND of two bytes (the C operator & on unsigned char values)
AndByteTable ==
    [a \in 0..255 |-> [b \in 0..255 |->
        (16 * AndNibble[a \div 16][b \div 16]) + AndNibble[a % 16][b % 16]]]

And16(a, b) ==
    (256 * AndByteTable[a \div 256][b \div 256]) + AndByteTable[a % 256][b % 256]

\* the C operators &, |, ^, ~ on unsigned int
And(x, y) == <<And16(x[1], y[1]), And16(x[2], y[2])>>
Or(x, y)  == <<x[1] + y[1] - And16(x[1], y[1]), x[2] + y[2] - And16(x[2], y[2])>>
Xor(x, y) == <<x[1] + y[1] - 2 * And16(x[1], y[1]),
               x[2] + y[2] - 2 * And16(x[2], y[2])>>
Not(x)    == <<65535 - x[1], 65535 - x[2]>>

\* the C operator + on unsigned int (modulo 2^32)
Add(x, y) ==
    LET lo == x[2] + y[2]
    IN  <<(x[1] + y[1] + (lo \div 65536)) % 65536, lo % 65536>>

\* the C operators << and >> on unsigned int, 0 <= s < 32
Shl(x, s) ==
    IF s >= 16 THEN <<(x[2] * Pow2(s - 16)) % 65536, 0>>
    ELSE <<((x[1] * Pow2(s)) % 65536) + (x[2] \div Pow2(16 - s)),
           (x[2] * Pow2(s)) % 65536>>
Shr(x, s) ==
    IF s >= 16 THEN <<0, x[1] \div Pow2(s - 16)>>
    ELSE <<x[1] \div Pow2(s),
           ((x[1] % Pow2(s)) * Pow2(16 - s)) + (x[2] \div Pow2(s))>>

\* a small non-negative int as an unsigned int
U32(n) == <<n \div 65536, n % 65536>>

-----------------------------------------------------------------------------
(* MD4 "magic constants"                                                   *)

I0 == <<26437, 8961>>      \* 0x67452301
I1 == <<61389, 43913>>     \* 0xefcdab89
I2 == <<39098, 56574>>     \* 0x98badcfe
I3 == <<4146, 21622>>      \* 0x10325476
C2 == <<23170, 31129>>     \* 013240474631 = 0x5a827999
C3 == <<28377, 60321>>     \* 015666365641 = 0x6ed9eba1

fs1 == 3
fs2 == 7
fs3 == 11
fs4 == 19
gs1 == 3
gs2 == 5
gs3 == 9
gs4 == 13
hs1 == 3
hs2 == 9
hs3 == 11
hs4 == 15

f(X, Y, Z) == Or(And(X, Y), And(Not(X), Z))
g(X, Y, Z) == Or(Or(And(X, Y), And(X, Z)), And(Y, Z))
\* fault injection: h with | in place of its second ^
h_or(X, Y, Z) == Or(Xor(X, Y), Z)
h(X, Y, Z) == Xor(Xor(X, Y), Z)
rot(X, S)  == Or(Shl(X, S), Shr(X, 32 - S))

\* the macros ff, gg, hh: the new value of their first argument
ff(A, B, C, D, Xi, s) == rot(Add(Add(A, f(B, C, D)), Xi), s)
gg(A, B, C, D, Xi, s) == rot(Add(Add(Add(A, g(B, C, D)), Xi), C2), s)
hh(A, B, C, D, Xi, s) == rot(Add(Add(Add(A, h(B, C, D)), Xi), C3), s)

\* the order in which each round takes the 16 words of the block
Round1Order == <<0, 1, 2, 3, 4, 5, 6, 7, 8, 9, 10, 11, 12, 13, 14, 15>>
Round2Order == <<0, 4, 8, 12, 1, 5, 9, 13, 2, 6, 10, 14, 3, 7, 11, 15>>
Round3Order == <<0, 8, 4, 12, 2, 10, 6, 14, 1, 9, 5, 13, 3, 11, 7, 15>>
Round1Shift == <<fs1, fs2, fs3, fs4>>
Round2Shift == <<gs1, gs2, gs3, gs4>>
Round3Shift == <<hs1, hs2, hs3, hs4>>

\* One line of MDblock's body.  w = <<A, B, C, D>>; line k (1..48) updates
\* A, D, C, B in turn, the other three being passed in rotated order.
Step(w, X, k) ==
    LET j   == ((k - 1) % 16) + 1
        q   == ((k - 1) % 4) + 1
        a   == w[1]
        b   == w[2]
        c   == w[3]
        d   == w[4]
        new(p1, p2, p3, p4) ==
            IF k <= 16 THEN ff(p1, p2, p3, p4, X[Round1Order[j] + 1], Round1Shift[q])
            ELSE IF k <= 32
                 THEN gg(p1, p2, p3, p4, X[Round2Order[j] + 1], Round2Shift[q])
                 ELSE hh(p1, p2, p3, p4, X[Round3Order[j] + 1], Round3Shift[q])
    IN  CASE q = 1 -> <<new(a, b, c, d), b, c, d>>
          [] q = 2 -> <<a, b, c, new(d, a, b, c)>>
          [] q = 3 -> <<a, b, new(c, d, a, b), d>>
          [] q = 4 -> <<a, new(b, c, d, a), c, d>>

RECURSIVE Steps(_, _, _)
\* lines k..48 of the body, from w = <<A, B, C, D>> (Len(w) = 4 has the
\* lines before k evaluated before line k is)
Steps(w, X, k) ==
    IF k > 48 \/ Len(w) # 4 THEN w ELSE Steps(Step(w, X, k), X, k + 1)

\* X[i] = Xb[0] + (Xb[1] << 8) + (Xb[2] << 16) + (Xb[3] << 24)
\* (Xb[3] << 24 is an int shifted into its sign bit when Xb[3] >= 128; the
\* sum is the 32-bit word with Xb[3] as its top byte)
LoadWords(Xb) ==
    [i \in 1..16 |-> <<Xb[4 * i - 1] + 256 * Xb[4 * i],
                       Xb[4 * i - 3] + 256 * Xb[4 * i - 2]>>]

\* MDblock(MDp, Xb): the new MDp->buffer
\* MDp->buffer[0] += A; ... MDp->buffer[3] += D;
AddWords(buffer, w) ==
    <<Add(buffer[1], w[1]), Add(buffer[2], w[2]),
      Add(buffer[3], w[3]), Add(buffer[4], w[4])>>

MDblock(buffer, Xb) == AddWords(buffer, Steps(buffer, LoadWords(Xb), 1))

-----------------------------------------------------------------------------
(* MD4_CTX and the engine                                                  *)

NULL == <<>>

\* MD4Init(MDp)
MD4Init ==
    [buffer |-> <<I0, I1, I2, I3>>,
     count  |-> <<0, 0, 0, 0, 0, 0, 0, 0>>,
     done   |-> 0]

\* "Add count to MDp->count": tmp = count; p = MDp->count;
\* while (tmp) { tmp += *p; *p++ = tmp; tmp = tmp >> 8; }
\* (p leaves count[] only once 2^64 bits have been counted, which no run of
\* the model reaches; the loop is cut there)
RECURSIVE CountLoop(_, _, _)
CountLoop(cnt, tmp, p) ==
    IF tmp = <<0, 0>> \/ p > 7 THEN cnt
    ELSE LET t == Add(tmp, U32(cnt[p + 1]))
         IN  CountLoop([cnt EXCEPT ![p + 1] = t[2] % 256], Shr(t, 8), p + 1)

AddCount(cnt, count) == CountLoop(cnt, count, 0)

\* count == 0 && MDp->done : the courtesy close
CourtesyClose(MDp, count) == count = <<0, 0>> /\ MDp.done # 0

\* fault injection: MD4Update without its check of MDp->done
AlreadyDone_never(MDp) == FALSE

\* if (MDp->done) { printf(...); return; }
AlreadyDone(MDp) == MDp.done # 0

\* count == 512 and count > 512 on an unsigned int
IsFullBlock(count) == count = <<0, 512>>
IsIllegal(count)   == count[1] > 0 \/ count[2] > 512

\* fault injection: the padding bit set, the bits below it not cleared
PadByte_keep(x, bit) == Or(<<0, x>>, Shl(<<0, 1>>, 7 - bit))[2] % 256

\* mask = 1 << (7 - bit); XX[byte] = (XX[byte] | mask) & ~(mask - 1);
\* the result is stored in an unsigned char
PadByte(x, bit) ==
    LET mask == Shl(<<0, 1>>, 7 - bit)
    IN  And(Or(<<0, x>>, mask), Not(<<0, mask[2] - 1>>))[2] % 256

\* fault injection: the boundary off by one
RoomForCount_off(byte) == byte <= 56

\* if (byte <= 55): room for the bit count in this block
RoomForCount(byte) == byte <= 55

\* The partial-block branch of MD4Update, for count < 512; cnt is MDp->count
\* after the addition, XX0 the contents of the uninitialized array XX.
\* The result is the sequence of blocks handed to MDblock.
PartialBlocks(cnt, X, count, XX0) ==
    LET byte == count \div 8
        bit  == count % 8
        \* if (count) for (i=0;i<=byte;i++) XX[i] = X[i];
        XX1(i) == IF count # 0 /\ i <= byte THEN X[i + 1] ELSE XX0[i + 1]
        \* for (i=byte+1;i<64;i++) XX[i] = 0;
        XX2(i) == IF i >= byte + 1 THEN 0 ELSE XX1(i)
        \* XX[byte] = (XX[byte] | mask) & ~(mask - 1);
        XX3(i) == IF i = byte THEN PadByte(XX2(i), bit) ELSE XX2(i)
    IN  IF RoomForCount(byte)
        THEN <<[i \in 1..64 |-> IF i - 1 >= 56 THEN cnt[i - 56] ELSE XX3(i - 1)]>>
        ELSE <<[i \in 1..64 |-> XX3(i - 1)],
               [i \in 1..64 |-> IF i - 1 >= 56 THEN cnt[i - 56] ELSE 0]>>

\* MDblock on each block of bs in turn
RECURSIVE Compress(_, _)
Compress(buffer, bs) ==
    IF bs = <<>> \/ Len(buffer) # 4 THEN buffer
    ELSE Compress(MDblock(buffer, Head(bs)), Tail(bs))

FirstBlock(X) == [i \in 1..64 |-> X[i]]

\* MD4Update(MDp, X, count): MD is the context after the call, blocks the
\* blocks it handed to MDblock, printed what it wrote to stdout.
\* "Process data", with cnt = MDp->count after the addition
FullBlock(MDp, cnt, Xb) ==
    [MD |-> [buffer |-> MDblock(MDp.buffer, Xb), count |-> cnt, done |-> MDp.done],
     blocks |-> <<Xb>>, printed |-> ""]

Partial(MDp, cnt, bs) ==
    [MD |-> [buffer |-> Compress(MDp.buffer, bs), count |-> cnt, done |-> 1],
     blocks |-> bs, printed |-> ""]

ProcessData(MDp, X, count, XX0, cnt) ==
    IF IsFullBlock(count) THEN FullBlock(MDp, cnt, FirstBlock(X))
    ELSE IF IsIllegal(count)
    THEN [MD |-> [MDp EXCEPT !.count = cnt],
          blocks |-> <<>>, printed |-> "illegal count value"]
    ELSE Partial(MDp, cnt, PartialBlocks(cnt, X, count[2], XX0))

MD4Update(MDp, X, count, XX0) ==
    IF CourtesyClose(MDp, count)
    THEN [MD |-> MDp, blocks |-> <<>>, printed |-> ""]
    ELSE IF AlreadyDone(MDp)
    THEN [MD |-> MDp, blocks |-> <<>>, printed |-> "MD already done"]
    ELSE ProcessData(MDp, X, count, XX0, AddCount(MDp.count, count))

\* for (i..4) { w = MD->buffer[i]; for (j..4) { *buf++ = w; w >>= 8; } }
WordBytes(w) == <<w[2] % 256, w[2] \div 256, w[1] % 256, w[1] \div 256>>

Serialize(buffer) ==
    WordBytes(buffer[1]) \o WordBytes(buffer[2]) \o
    WordBytes(buffer[3]) \o WordBytes(buffer[4])

\* MD4Final(buf, MD): MD4Update(MD, NULL, 0), then the 16 bytes
WithDigest(r) ==
    [MD |-> r.MD, blocks |-> r.blocks, printed |-> r.printed,
     buf |-> Serialize(r.MD.buffer)]

MD4Final(MDp, XX0) == WithDigest(MD4Update(MDp, NULL, <<0, 0>>, XX0))

-----------------------------------------------------------------------------
(* The PPP_MD adapter over the native engine                               *)

\* int mdlen = len * 8: the product of a size_t, converted to a 32-bit int
\* (modulo 2^32, two's complement)
Mdlen(len) ==
    LET r == len % Pow2(29)
    IN  IF r < Pow2(28) THEN r * 8
        ELSE (((r - Pow2(28)) * 8) - Pow2(30)) - Pow2(30)

\* an int passed for the parameter "unsigned int count"
Unsigned(m) ==
    IF m >= 0 THEN U32(m)
    ELSE LET v == (m + Pow2(30)) + Pow2(30)
         IN  <<32768 + (v \div 65536), v % 65536>>

\* data += 64
Advance(data) == SubSeq(data, 65, Len(data))

\* while (mdlen > 512) { MD4Update(.., data, 512); data += 64; mdlen -= 512; }
\* MD4Update(.., data, mdlen); return 1;
\* acc.MD is the context so far, acc.calls and acc.blocks the counts and
\* the blocks of the MD4Update calls issued so far; r is what the MD4Update
\* call with the given count returned.
Issued(acc, r, count) ==
    [MD     |-> r.MD,
     calls  |-> Append(acc.calls, count),
     blocks |-> acc.blocks \o r.blocks,
     ret    |-> 1]

RECURSIVE UpdateLoop(_, _, _, _)
UpdateLoop(data, mdlen, XX0, acc) ==
    IF mdlen > 512
    THEN UpdateLoop(Advance(data), mdlen - 512, XX0,
                    Issued(acc, MD4Update(acc.MD, data, <<0, 512>>, XX0), <<0, 512>>))
    ELSE Issued(acc, MD4Update(acc.MD, data, Unsigned(mdlen), XX0), Unsigned(mdlen))

\* md4_update(ctx, data, len) of the native branch
md4_update_native(MDp, data, len, XX0) ==
    UpdateLoop(data, Mdlen(len), XX0,
               [MD |-> MDp, calls |-> <<>>, blocks |-> <<>>, ret |-> 1])

-----------------------------------------------------------------------------
(* The PPP_MD adapter over OpenSSL: EVP_DigestInit, EVP_DigestUpdate and   *)
(* EVP_DigestFinal with EVP_md4(), as the streaming MD4 of RFC 1320: the   *)
(* context absorbs the bytes it is given and the digest is that of their   *)
(* concatenation.                                                          *)

\* the message M padded: 0x80, zeros up to 56 modulo 64, the bit length in
\* 8 bytes, least-significant first
\* n < 2^31 as 8 bytes, least-significant first
LE8(n) == [i \in 1..8 |-> IF i <= 4 THEN (n \div Pow2(8 * (i - 1))) % 256 ELSE 0]

Padded(M) ==
    M \o <<128>> \o [i \in 1..((119 - (Len(M) % 64)) % 64) |-> 0] \o LE8(8 * Len(M))

SplitBlocks(P) ==
    [k \in 1..(Len(P) \div 64) |-> SubSeq(P, 64 * (k - 1) + 1, 64 * k)]

EVP_md4(M) == Serialize(Compress(<<I0, I1, I2, I3>>, SplitBlocks(Padded(M))))

\* md4_init, md4_update, md4_final of the OpenSSL branch, on the bytes the
\* EVP context has absorbed.  whole is FALSE once a buffer longer than the
\* model holds has been absorbed.
md4_init_evp == [data |-> <<>>, whole |-> TRUE, out |-> <<>>]

md4_update_evp(e, in) ==
    IF in.len = Len(in.data)
    THEN [e EXCEPT !.data = e.data \o in.data]
    ELSE [e EXCEPT !.whole = FALSE]

md4_final_evp(e) == [e EXCEPT !.out = EVP_md4(e.data)]

-----------------------------------------------------------------------------
(* Inputs                                                                  *)

MaxFeeds  == 2      \* md4_update / MD4Update calls on one context
MaxFinals == 2      \* md4_final / MD4Final calls on one context

Pattern(n) == [i \in 1..n |-> (37 * i + 11) % 256]

StrA   == <<97>>
StrAbc == <<97, 98, 99>>
StrMessageDigest ==
    <<109, 101, 115, 115, 97, 103, 101, 32, 100, 105, 103, 101, 115, 116>>

Messages ==
    {<<>>, StrA, StrAbc, StrMessageDigest, Pattern(64), Pattern(65), Pattern(128)}

\* Buffers of 2^28 bytes and more: data is the part of the buffer the code
\* reads, len the length passed.
HugeInputs ==
    {[data |-> <<>>, len |-> Pow2(28)],
     [data |-> <<>>, len |-> Pow2(28) + 1],
     [data |-> <<>>, len |-> Pow2(29)]}

Inputs == {[data |-> m, len |-> Len(m)] : m \in Messages} \cup HugeInputs

\* Values of memory the code reads without having written it.  MD4Update
\* reads X[count >> 3], the byte after the caller's data when count is a
\* multiple of 8, and, when count is 0, XX[0] before anything was stored in
\* it: any byte value may be found there.
Garbage == {0, 255}

Uninit(u) == [i \in 1..64 |-> u]

NoOp == [name |-> "start", len |-> 0, count |-> <<0, 0>>, X |-> <<>>, Y |-> <<>>,
         done0 |-> 0, count0 |-> <<>>]

NoFed == [M |-> <<>>, whole |-> TRUE, feeds |-> 0, finals |-> 0]

-----------------------------------------------------------------------------
(* Spec: one PPP_MD_CTX through md4_init, md4_update, md4_final, md4_clean *)
(* of the native branch, the OpenSSL branch being given the same calls.    *)
(*   priv    ctx->priv: NULL, or <<the MD4_CTX it points to>>              *)
(*   out     the caller's digest buffer                                    *)
(*   ret     the value the last adapter call returned                      *)
(*   op      the last call and the context's done and count before it      *)
(*   calls   the counts of the MD4Update calls the last md4_update issued  *)
(*   blocks  the blocks the last call handed to MDblock                    *)
(*   fed     the concatenation of the buffers fed, and the calls so far    *)
(*   total   the bits of the MD4Update calls accepted (SpecEngine)         *)
(*   evp     the OpenSSL branch's context                                  *)
(*   twin    a second context (SpecPair)                                   *)

Init ==
    /\ priv = NULL
    /\ out = <<>>
    /\ ret = -1
    /\ op = NoOp
    /\ calls = <<>>
    /\ blocks = <<>>
    /\ fed = NoFed
    /\ total = 0
    /\ evp = md4_init_evp
    /\ twin = NULL

\* md4_init: calloc succeeds
md4_init ==
    /\ op.name = "start"
    /\ priv' = <<MD4Init>>
    /\ ret' = 1
    /\ op' = [NoOp EXCEPT !.name = "md4_init"]
    /\ evp' = md4_init_evp
    /\ UNCHANGED <<out, calls, blocks, fed, total, twin>>

\* md4_init: calloc returns NULL
md4_init_nomem ==
    /\ op.name = "start"
    /\ ret' = 0
    /\ op' = [NoOp EXCEPT !.name = "md4_init"]
    /\ UNCHANGED <<priv, out, calls, blocks, fed, total, evp, twin>>

md4_update ==
    /\ priv # NULL
    /\ fed.feeds < MaxFeeds
    /\ \E in \in Inputs, gb \in Garbage :
        \E r \in {md4_update_native(priv[1], in.data \o <<gb>>, in.len,
                                     Uninit(255 - gb))} :
          LET MDp == priv[1]
          IN  /\ priv' = <<r.MD>>
              /\ ret' = r.ret
              /\ calls' = r.calls
              /\ blocks' = r.blocks
              /\ op' = [name |-> "md4_update", len |-> in.len, count |-> <<0, 0>>,
                        X |-> in.data, Y |-> <<>>,
                        done0 |-> MDp.done, count0 |-> MDp.count]
              /\ fed' = [fed EXCEPT !.feeds = @ + 1,
                                    !.M = IF in.len = Len(in.data)
                                          THEN @ \o in.data ELSE @,
                                    !.whole = @ /\ in.len = Len(in.data)]
              /\ evp' = md4_update_evp(evp, in)
    /\ UNCHANGED <<out, total, twin>>

md4_final ==
    /\ priv # NULL
    /\ fed.finals < MaxFinals
    /\ fed' = [fed EXCEPT !.finals = @ + 1]
    /\ evp' = md4_final_evp(evp)
    /\ \E ub \in Garbage :
        \E r \in {MD4Final(priv[1], Uninit(ub))} :
          LET MDp == priv[1]
          IN  /\ priv' = <<r.MD>>
              /\ out' = r.buf
              /\ ret' = 1
              /\ blocks' = r.blocks
              /\ op' = [name |-> "md4_final", len |-> 0, count |-> <<0, 0>>,
                        X |-> <<>>, Y |-> <<>>,
                        done0 |-> MDp.done, count0 |-> MDp.count]
    /\ UNCHANGED <<calls, total, twin>>

md4_clean ==
    /\ op.name \notin {"start", "md4_clean"}
    /\ priv' = NULL
    /\ op' = [NoOp EXCEPT !.name = "md4_clean"]
    /\ UNCHANGED <<out, ret, calls, blocks, fed, total, evp, twin>>

Next == md4_init \/ md4_init_nomem \/ md4_update \/ md4_final \/ md4_clean

Spec == Init /\ [][Next]_vars

-----------------------------------------------------------------------------
(* SpecEngine: one MD4_CTX, after MD4Init, under direct calls of MD4Update *)
(* (any buffer, any of the counts below) and MD4Final.                     *)

BlockA == Pattern(64)
BlockB == [i \in 1..64 |-> (201 * i + 90) % 256]
EngineBlocks == {BlockA, BlockB}

Counts == {0, 1, 7, 8, 9, 440, 447, 448, 449, 456, 511, 512, 513, 1024}

InitEngine ==
    /\ priv = <<MD4Init>>
    /\ out = <<>>
    /\ ret = -1
    /\ op = [NoOp EXCEPT !.name = "MD4Init"]
    /\ calls = <<>>
    /\ blocks = <<>>
    /\ fed = NoFed
    /\ total = 0
    /\ evp = md4_init_evp
    /\ twin = NULL

MD4UpdateCall ==
    /\ fed.feeds < MaxFeeds
    /\ \E X \in EngineBlocks, c \in Counts, ub \in Garbage :
        \E r \in {MD4Update(priv[1], X, U32(c), Uninit(ub))} :
          /\ priv' = <<r.MD>>
          /\ blocks' = r.blocks
          /\ op' = [name |-> "MD4Update", len |-> 0, count |-> U32(c),
                    X |-> X, Y |-> <<>>,
                    done0 |-> priv[1].done, count0 |-> priv[1].count]
          /\ total' = IF priv[1].done = 0 /\ c <= 512 THEN total + c ELSE total
    /\ fed' = [fed EXCEPT !.feeds = @ + 1]
    /\ UNCHANGED <<out, ret, calls, evp, twin>>

MD4FinalCall ==
    /\ fed.finals < MaxFinals
    /\ \E ub \in Garbage :
        \E r \in {MD4Final(priv[1], Uninit(ub))} :
          /\ priv' = <<r.MD>>
          /\ out' = r.buf
          /\ blocks' = r.blocks
          /\ op' = [name |-> "MD4Final", len |-> 0, count |-> <<0, 0>>,
                    X |-> <<>>, Y |-> <<>>,
                    done0 |-> priv[1].done, count0 |-> priv[1].count]
    /\ fed' = [fed EXCEPT !.finals = @ + 1]
    /\ UNCHANGED <<ret, calls, total, evp, twin>>

NextEngine == MD4UpdateCall \/ MD4FinalCall

SpecEngine == InitEngine /\ [][NextEngine]_vars

-----------------------------------------------------------------------------
(* SpecPair: two contexts given the same calls, the buffers of the two     *)
(* agreeing on the first count bits of each call and on nothing else.      *)

PairCounts == {0, 1, 4, 7, 8, 9, 440, 448, 505, 511, 512}

\* X with every bit after the first c replaced by the bits of the byte gb
Beyond(X, c, gb) ==
    [i \in 1..64 |->
        IF i - 1 < c \div 8 THEN X[i]
        ELSE IF i - 1 > c \div 8 THEN gb
        ELSE ((X[i] \div Pow2(8 - (c % 8))) * Pow2(8 - (c % 8)))
             + (gb % Pow2(8 - (c % 8)))]

InitPair ==
    /\ priv = <<MD4Init>>
    /\ twin = <<MD4Init>>
    /\ out = <<>>
    /\ ret = -1
    /\ op = [NoOp EXCEPT !.name = "MD4Init"]
    /\ calls = <<>>
    /\ blocks = <<>>
    /\ fed = NoFed
    /\ total = 0
    /\ evp = md4_init_evp

PairUpdate ==
    /\ fed.feeds < MaxFeeds
    /\ \E X \in EngineBlocks, c \in PairCounts, gb \in Garbage, ub \in Garbage :
        \E r1 \in {MD4Update(priv[1], X, U32(c), Uninit(ub))},
           r2 \in {MD4Update(twin[1], Beyond(X, c, gb), U32(c), Uninit(255 - ub))} :
          /\ priv' = <<r1.MD>>
          /\ twin' = <<r2.MD>>
          /\ blocks' = r1.blocks
          /\ op' = [name |-> "MD4Update", len |-> 0, count |-> U32(c),
                    X |-> X, Y |-> Beyond(X, c, gb),
                    done0 |-> priv[1].done, count0 |-> priv[1].count]
    /\ fed' = [fed EXCEPT !.feeds = @ + 1]
    /\ UNCHANGED <<out, ret, calls, total, evp>>

PairFinal ==
    /\ fed.finals < MaxFinals
    /\ \E ub \in Garbage :
        \E r1 \in {MD4Final(priv[1], Uninit(ub))},
           r2 \in {MD4Final(twin[1], Uninit(255 - ub))} :
          /\ priv' = <<r1.MD>>
          /\ twin' = <<r2.MD>>
          /\ out' = r1.buf
          /\ blocks' = r1.blocks
          /\ op' = [name |-> "MD4Final", len |-> 0, count |-> <<0, 0>>,
                    X |-> <<>>, Y |-> <<>>,
                    done0 |-> priv[1].done, count0 |-> priv[1].count]
    /\ fed' = [fed EXCEPT !.finals = @ + 1]
    /\ UNCHANGED <<ret, calls, total, evp>>

NextPair == PairUpdate \/ PairFinal

SpecPair == InitPair /\ [][NextPair]_vars

-----------------------------------------------------------------------------
(* Claims                                                                  *)

\* md4_update then md4_final on a fresh context, the message in one buffer
OneShot(M) ==
    MD4Final(md4_update_native(MD4Init, M \o <<0>>, Len(M), Uninit(0)).MD,
             Uninit(0)).buf

\* The state is that of the first md4_final on the context: every buffer fed
\* so far was fed before it.
FirstFinal == op.name = "md4_final" /\ fed.finals = 1

\* C1 (chunk invariance): the digest md4_final returns after the message was
\* fed in any sequence of md4_update calls on a fresh context is the digest
\* of the message fed in one md4_update call on a fresh context.
C1_ChunkInvariance ==
    (FirstFinal /\ fed.whole) => out = OneShot(fed.M)

\* C2 (misuse detection): md4_update called with a non-zero length on a
\* context that is already finished does not return success.
C2_MisuseReported ==
    (op.name = "md4_update" /\ op.done0 # 0 /\ op.len > 0) => ret # 1

\* C3 (backend equivalence): for every sequence md4_init, md4_update*,
\* md4_final the native branch returns the digest the OpenSSL branch returns,
\* the MD4 of the concatenation of the bytes fed.
C3_BackendEquivalence ==
    (FirstFinal /\ evp.whole) => out = evp.out

\* C4 (stability after finalization): once done is set, no MD4Update call
\* (zero or non-zero count) and no MD4Final call changes the state words, the
\* bit counter or done; every MD4Final then returns the bytes of the same
\* state words, and two MD4Final calls in a row return the same digest.
C4_StableAfterDone ==
    [][(priv[1].done # 0) =>
          /\ priv' = priv
          /\ (op'.name = "MD4Final" => out' = Serialize(priv[1].buffer))
          /\ (op.name = "MD4Final" /\ op'.name = "MD4Final" => out' = out)]_vars

\* a second MD4Final on a finished context, after two MD4Update calls of
\* which one, of 1..511 bits, was accepted
C4_Witness ==
    /\ op.name = "MD4Final" /\ op.done0 # 0
    /\ fed.finals = 2 /\ fed.feeds = 2
    /\ total > 0 /\ total < 512
    /\ Len(out) = 16

DigestEmpty ==
    <<49, 214, 207, 224, 209, 106, 233, 49, 183, 60, 89, 215, 224, 192, 137, 192>>
DigestAbc ==
    <<164, 72, 1, 122, 175, 33, 216, 82, 95, 193, 10, 232, 122, 166, 114, 157>>
DigestMessageDigest ==
    <<217, 19, 10, 129, 100, 84, 159, 232, 24, 135, 72, 6, 225, 199, 1, 75>>

\* C5 (known vectors): one md4_update of the message and md4_final on a fresh
\* context give 31d6cfe0d16ae931b73c59d7e0c089c0 for the empty message,
\* a448017aaf21d8525fc10ae87aa6729d for "abc" and
\* d9130a8164549fe818874806e1c7014b for "message digest"; the 16 bytes are
\* the four state words, least-significant byte first, in word order.
C5_KnownVectors ==
    (FirstFinal /\ fed.feeds = 1 /\ fed.whole) =>
        /\ fed.M = <<>> => out = DigestEmpty
        /\ fed.M = StrAbc => out = DigestAbc
        /\ fed.M = StrMessageDigest => out = DigestMessageDigest
        /\ \A i \in 1..4 :
              priv[1].buffer[i] = <<out[4 * i - 1] + 256 * out[4 * i],
                                    out[4 * i - 3] + 256 * out[4 * i - 2]>>

C5_Witness ==
    /\ FirstFinal /\ fed.feeds = 1
    /\ fed.M = StrMessageDigest
    /\ out = DigestMessageDigest

\* C6 (bitCount): in every state the 8-byte counter is the total number of
\* bits of the MD4Update calls of at most 512 bits issued while the context
\* was not done; a rejected call leaves it unchanged.
C6_CountIsTotal == priv[1].count = LE8(total)

RECURSIVE SumCalls(_)
SumCalls(cs) == IF cs = <<>> THEN 0 ELSE Head(cs)[2] + SumCalls(Tail(cs))

\* C7 (adapter chunking): every MD4Update call md4_update issues has a count
\* of at most 512, all but the last have exactly 512, and the counts sum to
\* 8 * len.
C7_AdapterChunking ==
    (op.name = "md4_update") =>
        /\ \A i \in 1..Len(calls) : calls[i][1] = 0 /\ calls[i][2] <= 512
        /\ \A i \in 1..(Len(calls) - 1) : calls[i] = <<0, 512>>
        /\ SumCalls(calls) % 8 = 0
        /\ SumCalls(calls) \div 8 = op.len

\* C8 (finished flag): after md4_update of len bytes on a context that was
\* not finished, the context is finished exactly when len is not a positive
\* multiple of 64.
C8_FinishedIffNotMultiple ==
    (op.name = "md4_update" /\ op.done0 = 0) =>
        ((priv[1].done # 0) <=> ~(op.len > 0 /\ op.len % 64 = 0))

\* the counter (below 2^31) as a number
Value(cnt) == cnt[1] + 256 * cnt[2] + 65536 * cnt[3] + 16777216 * cnt[4]

\* byte i (from 0) of the message part of the padding of the first c bits of
\* X: the valid bits, a single 1 bit, zeros
PadShape(X, c, i) ==
    IF i < c \div 8 THEN X[i + 1]
    ELSE IF i > c \div 8 THEN 0
    ELSE IF c % 8 = 0 THEN 128
    ELSE ((X[i + 1] \div Pow2(8 - (c % 8))) * Pow2(8 - (c % 8)))
         + Pow2(7 - (c % 8))

\* C9 (padding): a terminal call of c bits (0 <= c <= 511), MD4Final's call
\* of 0 bits included, compresses one block when c div 8 <= 55 and two
\* otherwise.  One block: the valid bits, a 1 bit, zeros up to offset 55, the
\* bit count (c included) in 8 bytes from offset 56.  Two blocks: the valid
\* bits, a 1 bit, zeros up to offset 63; then 56 zero bytes and the bit
\* count.  55 bytes take one block, 56 and 57 bytes two.
C9_PaddingBlocks ==
    (op.name \in {"MD4Update", "MD4Final"} /\ op.done0 = 0
        /\ op.count[1] = 0 /\ op.count[2] < 512) =>
        LET c      == op.count[2]
            bits   == LE8(Value(op.count0) + c)
            msg    == [i \in 1..64 |-> PadShape(op.X, c, i - 1)]
            length == [i \in 1..64 |-> IF i > 56 THEN bits[i - 56] ELSE 0]
        IN  /\ c \div 8 <= 55 =>
                  blocks = <<[i \in 1..64 |-> IF i > 56 THEN bits[i - 56] ELSE msg[i]]>>
            /\ c \div 8 >= 56 => blocks = <<msg, length>>
            /\ c = 440 => Len(blocks) = 1
            /\ c \in {448, 456} => Len(blocks) = 2
            /\ priv[1].count = bits

\* a terminal call of 56 bytes, after a full block
C9_Witness ==
    /\ op.name = "MD4Update" /\ op.done0 = 0 /\ op.count = <<0, 448>>
    /\ Value(op.count0) = 512
    /\ Len(blocks) = 2
    /\ priv[1].done = 1

\* C10 (independence): two contexts in the same state, given calls whose
\* buffers agree on the first count bits and differ in the bits after them
\* (the rest of the boundary byte, every later byte, the uninitialized
\* scratch array), stay in the same state: state words, counter and done.
C10_Independent == priv = twin

\* a terminal call of 9 bits whose two buffers differ
C10_Witness ==
    /\ op.name = "MD4Update" /\ op.done0 = 0 /\ op.count = <<0, 9>>
    /\ op.X # op.Y
    /\ \A i \in 3..64 : op.X[i] # op.Y[i]
    /\ priv[1].done = 1

=============================================================================
